---- MODULE Spec2Model ----
(***************************************************************************)
(* Model of src/scraper.py: the supplier scraper built on a search listing *)
(* (google_search), a page interpreter (scrape_supplier_page), the         *)
(* directory enrichment (enrich_record_from_directory) and the batch       *)
(* orchestrator (build_records).                                           *)
(*                                                                         *)
(* Representation.  A Python str is a sequence of pieces: single           *)
(* characters for page text ("x", " "), lexical tokens for URLs and hrefs  *)
(* ("/url?q=", "http://", "a.ex", ...), whole words for the free text the  *)
(* regular expressions scan.  The empty str is << >>.  An Optional[str] is *)
(* a sequence of length 0 (None) or 1 (<<s>>).                             *)
(***************************************************************************)
EXTENDS Integers, Sequences, FiniteSets, TLC

VARIABLES
    pc,          \* position of the running call
    listing,     \* hrefs of the <a> elements of the search result page, in document order
    num_results, \* build_records argument
    country,     \* build_records argument
    region,      \* build_records argument
    searched,    \* what google_search's _get_html did: "pending", "ok" or "failed"
    links,       \* build_records local: what google_search returned
    idx,         \* build_records local: enumerate(links, start=1) position
    records,     \* build_records local: the growing output list
    outcomes,    \* per attempted URL, what _get_html did: "ok" or "failed"
    log,         \* calls made to the outside: <<"get", url>> and <<"sleep", << >> >>
    result,      \* what build_records handed to its caller: << >> (nothing) or <<records>>
    argUrl,      \* scrape_supplier_page argument (interpreter run)
    argPage,     \* the page _get_html returned (interpreter run)
    rec,         \* the record under construction / enrichment
    rec0,        \* the record as it was passed to enrich_record_from_directory
    dirText      \* enrich_record_from_directory argument

vars == <<pc, listing, num_results, country, region, searched, links, idx, records,
          outcomes, log, result, argUrl, argPage, rec, rec0, dirText>>

runVars == <<listing, num_results, country, region, searched, links, idx, records,
             outcomes, log, result>>

(***************************************************************************)
(* Bounds of the model.                                                    *)
(***************************************************************************)
MaxAnchors == 3
MaxHint == 3
MaxParas == 4
MaxWords == 3

(***************************************************************************)
(* Generic sequence helpers.                                               *)
(***************************************************************************)
None == << >>

Some(s) == <<s>>

SeqsUpTo(S, n) == UNION {[1..k -> S] : k \in 0..n}

Min(a, b) == IF a < b THEN a ELSE b

Contains(s, x) == \E i \in DOMAIN s : s[i] = x

\* Python truthiness of an Optional[str]: None and "" are falsy.
Truthy(o) == o # None /\ o[1] # << >>

(***************************************************************************)
(* URL handling.                                                           *)
(***************************************************************************)
UrlQ == "/url?q="

Amp == "&"

Scheme == "http://"

Google == "google.com"

PathTokens == {"/p"}

\* href.startswith("/url?q=")
StartsWithUrlQ(href) == Len(href) >= 1 /\ href[1] = UrlQ

\* s.split(sep)[-1]: what follows the last occurrence of sep (all of s if none)
RECURSIVE SplitLast(_, _)
SplitLast(s, sep) ==
    IF s = << >> THEN << >>
    ELSE IF Contains(Tail(s), sep) THEN SplitLast(Tail(s), sep)
    ELSE IF Head(s) = sep THEN Tail(s)
    ELSE s

\* s.split(sep)[0]: what precedes the first occurrence of sep (all of s if none)
RECURSIVE SplitFirst(_, _)
SplitFirst(s, sep) ==
    IF s = << >> THEN << >>
    ELSE IF Head(s) = sep THEN << >>
    ELSE <<Head(s)>> \o SplitFirst(Tail(s), sep)

\* href.split("/url?q=")[-1].split("&")[0]
LinkOf(href) == SplitFirst(SplitLast(href, UrlQ), Amp)

\* link and "google.com" not in link
Eligible(link) == link # << >> /\ ~Contains(link, Google)

\* the tokens of s up to the first path token
RECURSIVE UpToPath(_)
UpToPath(s) ==
    IF s = << >> \/ Head(s) \in PathTokens THEN << >>
    ELSE <<Head(s)>> \o UpToPath(Tail(s))

\* urlparse(url).netloc: the authority after "scheme://", empty without one
Netloc(url) ==
    IF url # << >> /\ Head(url) = Scheme THEN UpToPath(Tail(url)) ELSE << >>

(***************************************************************************)
(* google_search, after the listing has been fetched.                      *)
(***************************************************************************)
\* list(dict.fromkeys(links))
RECURSIVE Dedup(_, _)
Dedup(s, seen) ==
    IF s = << >> THEN << >>
    ELSE IF Head(s) \in seen THEN Dedup(Tail(s), seen)
    ELSE <<Head(s)>> \o Dedup(Tail(s), seen \cup {Head(s)})

\* one iteration of "for result in soup.select('a')": the links after it
AnchorStep(acc, href) ==
    IF StartsWithUrlQ(href) /\ Eligible(LinkOf(href))
    THEN Append(acc, LinkOf(href))
    ELSE acc

\* the loop, from anchor i on, with its break once len(links) >= num_results
RECURSIVE CollectLinks(_, _, _, _)
CollectLinks(anchors, i, acc, n) ==
    IF i > Len(anchors) THEN acc
    ELSE LET acc2 == AnchorStep(acc, anchors[i])
         IN  IF Len(acc2) >= n THEN acc2
             ELSE CollectLinks(anchors, i + 1, acc2, n)

google_search(anchors, n) == Dedup(CollectLinks(anchors, 1, << >>, n), {})

(***************************************************************************)
(* Text extractors.  The free text is a sequence of blank-separated words  *)
(* from Words; what EMAIL_RE and PHONE_RE find in each word is tabulated   *)
(* (no word ends or starts with a digit run, so no match spans two words). *)
(***************************************************************************)
Words == {"call", "a@x.io", "b@y.io", "info@acme",
          "tel:5551234;", "tel:4441234;", "ref:123456;"}

\* EMAIL_RE.finditer on one word: the match, if any
EmailMatch(w) == IF w \in {"a@x.io", "b@y.io"} THEN <<w>> ELSE << >>

\* PHONE_RE.finditer on one word: the match, if any
PhoneMatch(w) ==
    CASE w = "tel:5551234;" -> <<"5551234">>
      [] w = "tel:4441234;" -> <<"4441234">>
      [] w = "ref:123456;"  -> <<"123456">>
      [] OTHER              -> << >>

\* len(re.sub(r"\D", "", value))
DigitCount(v) ==
    CASE v = "5551234" -> 7
      [] v = "4441234" -> 7
      [] v = "123456"  -> 6
      [] OTHER         -> 0

MinPhoneDigits == 7

\* Python's str order on the values the extractors can return
SortOrder == <<"123456", "4441234", "5551234", "a@x.io", "b@y.io">>

\* sorted(S) for a set S of such values
RECURSIVE SortedFrom(_, _)
SortedFrom(S, i) ==
    IF i > Len(SortOrder) THEN << >>
    ELSE (IF SortOrder[i] \in S THEN <<SortOrder[i]>> ELSE << >>)
         \o SortedFrom(S, i + 1)

Sorted(S) == SortedFrom(S, 1)

_extract_emails(text) ==
    Sorted({EmailMatch(text[i])[1] :
              i \in {j \in DOMAIN text : EmailMatch(text[j]) # << >>}})

_extract_phones(text) ==
    Sorted({PhoneMatch(text[i])[1] :
              i \in {j \in DOMAIN text :
                       /\ PhoneMatch(text[j]) # << >>
                       /\ DigitCount(PhoneMatch(text[j])[1]) >= MinPhoneDigits}})

\* sep.join(parts), the separator kept as a piece of its own
RECURSIVE Join(_, _)
Join(parts, sep) ==
    IF parts = << >> THEN << >>
    ELSE IF Len(parts) = 1 THEN <<Head(parts)>>
    ELSE <<Head(parts), sep>> \o Join(Tail(parts), sep)

\* sep.join(parts) for parts that are strs of characters
RECURSIVE JoinStr(_, _)
JoinStr(parts, sep) ==
    IF parts = << >> THEN << >>
    ELSE IF Len(parts) = 1 THEN Head(parts)
    ELSE Head(parts) \o <<sep>> \o JoinStr(Tail(parts), sep)

IsSpace(c) == c = " "

RECURSIVE LStrip(_)
LStrip(s) == IF s # << >> /\ IsSpace(Head(s)) THEN LStrip(Tail(s)) ELSE s

RECURSIVE RStrip(_)
RStrip(s) ==
    IF s # << >> /\ IsSpace(s[Len(s)]) THEN RStrip(SubSeq(s, 1, Len(s) - 1)) ELSE s

\* str.strip()
Strip(s) == RStrip(LStrip(s))

\* re.sub(r"\s+", " ", s)
RECURSIVE CollapseWs(_)
CollapseWs(s) ==
    IF s = << >> THEN << >>
    ELSE IF IsSpace(Head(s)) THEN <<" ">> \o CollapseWs(LStrip(s))
    ELSE <<Head(s)>> \o CollapseWs(Tail(s))

_cleanup_text(s) == Strip(CollapseWs(s))

(***************************************************************************)
(* A parsed page (the BeautifulSoup document):                             *)
(*   title  << >>: no <title>;  <<None>>: <title> whose .string is None;   *)
(*          <<Some(s)>>: <title> with the non-empty string s               *)
(*   h1     None: no <h1>;  Some(s): first <h1> with text s                *)
(*   meta   << >>: no <meta name=description>;  <<None>>: one without a    *)
(*          content attribute;  <<Some(s)>>: one with content s            *)
(*   paras  the texts of the <p> elements, in document order               *)
(*   text   the words of soup.get_text(" ", strip=True) that the contact   *)
(*          regular expressions look at                                    *)
(***************************************************************************)
\* element.get_text(" ", strip=True) of an element holding the one string s
GetText(s) == Strip(s)

_page_summary(page) ==
    IF page.meta # << >> /\ Truthy(page.meta[1])
    THEN _cleanup_text(page.meta[1][1])
    ELSE IF page.paras # << >>
    THEN _cleanup_text(JoinStr(
             [i \in 1..Min(3, Len(page.paras)) |-> GetText(page.paras[i])], " "))
    ELSE << >>

_best_title(page) ==
    IF page.title # << >> /\ Truthy(page.title[1])
    THEN _cleanup_text(page.title[1][1])
    ELSE IF page.h1 # None
    THEN _cleanup_text(GetText(page.h1[1]))
    ELSE << >>

(***************************************************************************)
(* SupplierRecord.  The fields the code ever passes to the constructor or  *)
(* assigns; the other optional fields of the dataclass keep their default  *)
(* None throughout and are left out.                                       *)
(***************************************************************************)
SupplierRecord(serial, name, details, website, ctry, reg, phone, email, srcs, notes) ==
    [serial_number |-> serial,
     name |-> name,
     company_details |-> details,
     export_capabilities |-> None,
     products_services_offered |-> None,
     website |-> website,
     country |-> ctry,
     region |-> reg,
     contact_number |-> phone,
     email |-> email,
     sources |-> srcs,
     notes |-> notes]

\* fault variant of OrNone: the "or None" forgotten, an empty str is stored
OrNoneKeepsEmpty(s) == Some(s)

\* x or None
OrNone(s) == IF s # << >> THEN Some(s) ELSE None

\* a or b, for strs
OrElse(a, b) == IF a # << >> THEN a ELSE b

\* ", ".join(xs) if xs else None
JoinedOrNone(xs) == IF xs # << >> THEN Some(Join(xs, ", ")) ELSE None

\* scrape_supplier_page once _get_html has returned the page
scrape_supplier_page(url, page, ctry, reg) ==
    SupplierRecord(0,
                   OrElse(_best_title(page), Netloc(url)),
                   OrNone(_page_summary(page)),
                   Some(url), Some(ctry), Some(reg),
                   JoinedOrNone(_extract_phones(page.text)),
                   JoinedOrNone(_extract_emails(page.text)),
                   <<url>>,
                   None)

\* the record build_records appends in its except branch
FailureNote == <<"Failed to fetch page: ", "exc">>

\* fault variant of PlaceholderRecord: the notes argument forgotten
PlaceholderRecordNoNotes(i, url, ctry, reg) ==
    SupplierRecord(i, Netloc(url), None, Some(url), Some(ctry), Some(reg),
                   None, None, <<url>>, None)

PlaceholderRecord(i, url, ctry, reg) ==
    SupplierRecord(i, Netloc(url), None, Some(url), Some(ctry), Some(reg),
                   None, None, <<url>>, Some(FailureNote))

\* fault variant of enrich_record_from_directory: the "not record.x" tests forgotten
enrich_overwrites(r, text) ==
    LET emails == _extract_emails(text)
        phones == _extract_phones(text)
        r1 == IF emails # << >>
              THEN [r EXCEPT !.email = Some(Join(emails, ", "))]
              ELSE r
    IN  IF phones # << >>
        THEN [r1 EXCEPT !.contact_number = Some(Join(phones, ", "))]
        ELSE r1

\* enrich_record_from_directory: the record after the call
enrich_record_from_directory(r, text) ==
    LET emails == _extract_emails(text)
        phones == _extract_phones(text)
        r1 == IF emails # << >> /\ ~Truthy(r.email)
              THEN [r EXCEPT !.email = Some(Join(emails, ", "))]
              ELSE r
    IN  IF phones # << >> /\ ~Truthy(r1.contact_number)
        THEN [r1 EXCEPT !.contact_number = Some(Join(phones, ", "))]
        ELSE r1

(***************************************************************************)
(* Inputs.                                                                 *)
(***************************************************************************)
\* href attributes a result page can carry
Hrefs == {
    <<UrlQ, Scheme, "a.ex", "/p", Amp, "sa">>,   \* /url?q=http://a.ex/p&sa
    <<UrlQ, Scheme, "a.ex", "/p">>,              \* the same target again
    <<UrlQ, "sa", UrlQ, Scheme, "b.ex">>,        \* /url?q=sa/url?q=http://b.ex
    <<UrlQ, Scheme, Google, "/p">>,              \* back to the search engine
    <<UrlQ, "a.ex", "/p">>,                      \* a target without a scheme
    <<"/p", UrlQ, Scheme, "b.ex">>,              \* not a result link
    <<UrlQ, Amp, "sa">> }                        \* an empty target

\* the (country, region) pairs a caller passes
Batches == {<< <<"China">>, <<"Asia">> >>, << <<"Chile">>, <<"Americas">> >>}

\* f"https://www.google.com/search?q={quote_plus(query)}&num={num_results}"
SearchUrl == <<"https://", "www.", Google, "/search?q=">>

Titles == {<< >>, <<None>>, <<Some(<<" ">>)>>, <<Some(<<"x">>)>>,
           <<Some(<<" ", "x", " ", " ", "x">>)>>}

H1s == {None, Some(<< >>), Some(<<" ", "x", " ">>)}

Metas == {<< >>, <<None>>, <<Some(<< >>)>>, <<Some(<<" ">>)>>,
          <<Some(<<"x", " ", " ", "x">>)>>}

ParaTexts == {<< >>, <<" ", "x">>}

PageTexts == {<< >>, <<"ref:123456;">>, <<"tel:5551234;", "b@y.io", "a@x.io">>}

\* every page the interpreter is run on
AllPages == [title : Titles, h1 : H1s, meta : Metas,
             paras : SeqsUpTo(ParaTexts, MaxParas), text : PageTexts]

\* the pages a fetch of the batch run can return
RunPages == {
    [title |-> <<Some(<<"x">>)>>, h1 |-> None, meta |-> <<Some(<<"x">>)>>,
     paras |-> << >>, text |-> <<"tel:5551234;", "b@y.io", "a@x.io">>],
    [title |-> << >>, h1 |-> None, meta |-> << >>, paras |-> << >>, text |-> << >>],
    [title |-> << >>, h1 |-> Some(<<" ", "x", " ">>), meta |-> << >>,
     paras |-> << <<" ", "x">> >>, text |-> <<"call">>],
    [title |-> <<Some(<<" ">>)>>, h1 |-> None, meta |-> <<Some(<<" ">>)>>,
     paras |-> << >>, text |-> <<"ref:123456;">>] }

\* the URLs the interpreter is run on
SampleUrls == {LinkOf(h) : h \in {g \in Hrefs : Eligible(LinkOf(g))}}

\* values a contact field can hold when enrichment starts
ContactValues == {None, Some(<< >>), Some(<<"old@z.io">>)}

NoPage == [title |-> << >>, h1 |-> None, meta |-> << >>, paras |-> << >>, text |-> << >>]

NoRecord == SupplierRecord(0, << >>, None, None, None, None, None, None, << >>, None)

(***************************************************************************)
(* build_records.                                                          *)
(***************************************************************************)
Idle == /\ argUrl = << >> /\ argPage = NoPage
        /\ rec = NoRecord /\ rec0 = NoRecord /\ dirText = << >>

Init ==
    /\ pc = "start"
    /\ listing \in SeqsUpTo(Hrefs, MaxAnchors)
    /\ num_results \in 0..MaxHint
    /\ \E b \in Batches : country = b[1] /\ region = b[2]
    /\ searched = "pending"
    /\ links = << >>
    /\ idx = 0
    /\ records = << >>
    /\ outcomes = << >>
    /\ log = << >>
    /\ result = None
    /\ Idle

others == <<argUrl, argPage, rec, rec0, dirText>>

\* google_search returns: its _get_html succeeded
SearchOk ==
    /\ pc = "start"
    /\ log' = Append(log, <<"get", SearchUrl>>)
    /\ searched' = "ok"
    /\ links' = google_search(listing, num_results)
    /\ pc' = "loop"
    /\ UNCHANGED <<listing, num_results, country, region, idx, records, outcomes,
                   result, others>>

\* fault variant of SearchFails: the failure is swallowed and the run goes on
\* with no links
SearchFailsSwallowed ==
    /\ pc = "start"
    /\ log' = Append(log, <<"get", SearchUrl>>)
    /\ searched' = "failed"
    /\ pc' = "loop"
    /\ UNCHANGED <<listing, num_results, country, region, links, idx, records,
                   outcomes, result, others>>

\* google_search raises: nothing in build_records catches it
SearchFails ==
    /\ pc = "start"
    /\ log' = Append(log, <<"get", SearchUrl>>)
    /\ searched' = "failed"
    /\ pc' = "aborted"
    /\ UNCHANGED <<listing, num_results, country, region, links, idx, records,
                   outcomes, result, others>>

\* the for loop takes the next URL and scrape_supplier_page calls _get_html
StartFetch ==
    /\ pc = "loop"
    /\ idx < Len(links)
    /\ idx' = idx + 1
    /\ log' = Append(log, <<"get", links[idx + 1]>>)
    /\ pc' = "fetching"
    /\ UNCHANGED <<searched, listing, num_results, country, region, links, records, outcomes,
                   result, others>>

\* _get_html returns a page: interpret, number, append
FetchOk ==
    /\ pc = "fetching"
    /\ \E page \in RunPages :
         records' = Append(records,
             [scrape_supplier_page(links[idx], page, country, region)
                 EXCEPT !.serial_number = idx])
    /\ outcomes' = Append(outcomes, "ok")
    /\ pc' = "sleeping"
    /\ UNCHANGED <<searched, listing, num_results, country, region, links, idx, log,
                   result, others>>

\* time.sleep(delay_s), the last statement of the try block (delay_s >= 0:
\* time.sleep raises ValueError on a negative length)
Sleep ==
    /\ pc = "sleeping"
    /\ log' = Append(log, <<"sleep", << >> >>)
    /\ pc' = "loop"
    /\ UNCHANGED <<searched, listing, num_results, country, region, links, idx, records,
                   outcomes, result, others>>

\* fault variant of FetchFails: the failed URL is dropped from the output
FetchFailsDrop ==
    /\ pc = "fetching"
    /\ pc' = "loop"
    /\ UNCHANGED <<searched, listing, num_results, country, region, links, idx,
                   records, outcomes, log, result, others>>

\* fault variant of FetchFails: no except branch, the failure leaves build_records
FetchFailsPropagates ==
    /\ pc = "fetching"
    /\ outcomes' = Append(outcomes, "failed")
    /\ pc' = "aborted"
    /\ UNCHANGED <<searched, listing, num_results, country, region, links, idx,
                   records, log, result, others>>

\* fault variant of FetchFails: the failed URL is fetched once more before the
\* placeholder is appended
FetchFailsRetry ==
    /\ pc = "fetching"
    /\ IF Cardinality({j \in DOMAIN log : log[j] = <<"get", links[idx]>>}) < 2
       THEN /\ log' = Append(log, <<"get", links[idx]>>)
            /\ UNCHANGED <<records, outcomes, pc>>
       ELSE /\ records' = Append(records,
                    PlaceholderRecord(idx, links[idx], country, region))
            /\ outcomes' = Append(outcomes, "failed")
            /\ pc' = "loop"
            /\ UNCHANGED log
    /\ UNCHANGED <<searched, listing, num_results, country, region, links, idx,
                   result, others>>

\* _get_html raises requests.RequestException: the except branch
FetchFails ==
    /\ pc = "fetching"
    /\ records' = Append(records, PlaceholderRecord(idx, links[idx], country, region))
    /\ outcomes' = Append(outcomes, "failed")
    /\ pc' = "loop"
    /\ UNCHANGED <<searched, listing, num_results, country, region, links, idx, log,
                   result, others>>

\* the loop is exhausted: return records
Return ==
    /\ pc = "loop"
    /\ idx = Len(links)
    /\ result' = Some(records)
    /\ pc' = "done"
    /\ UNCHANGED <<searched, listing, num_results, country, region, links, idx, records,
                   outcomes, log, others>>

Next == SearchOk \/ SearchFails \/ StartFetch \/ FetchOk \/ Sleep \/ FetchFails \/ Return

Spec == Init /\ [][Next]_vars

(***************************************************************************)
(* The interpreter on its own: scrape_supplier_page on any page.           *)
(***************************************************************************)
RunIdle ==
    /\ listing = << >> /\ num_results = 0 /\ searched = "pending"
    /\ links = << >> /\ idx = 0
    /\ records = << >> /\ outcomes = << >> /\ log = << >> /\ result = None

InitInterpret ==
    /\ pc = "interpret"
    /\ argUrl \in SampleUrls
    /\ argPage \in AllPages
    /\ \E b \in Batches : country = b[1] /\ region = b[2]
    /\ rec = NoRecord /\ rec0 = NoRecord /\ dirText = << >>
    /\ RunIdle

Interpret ==
    /\ pc = "interpret"
    /\ rec' = scrape_supplier_page(argUrl, argPage, country, region)
    /\ pc' = "interpreted"
    /\ UNCHANGED <<runVars, argUrl, argPage, rec0, dirText>>

SpecInterpret == InitInterpret /\ [][Interpret]_vars

(***************************************************************************)
(* The enrichment on its own: enrich_record_from_directory on any record.  *)
(***************************************************************************)
InitEnrich ==
    /\ pc = "enrich"
    /\ \E b \in Batches : country = b[1] /\ region = b[2]
    /\ \E em \in ContactValues, ph \in ContactValues, u \in SampleUrls :
         rec = SupplierRecord(1, Netloc(u), None, Some(u), Some(country),
                              Some(region), ph, em, <<u>>, None)
    /\ rec0 = rec
    /\ dirText \in SeqsUpTo(Words, MaxWords)
    /\ argUrl = << >> /\ argPage = NoPage
    /\ RunIdle

Enrich ==
    /\ pc = "enrich"
    /\ rec' = enrich_record_from_directory(rec, dirText)
    /\ pc' = "enriched"
    /\ UNCHANGED <<runVars, argUrl, argPage, rec0, dirText>>

SpecEnrich == InitEnrich /\ [][Enrich]_vars

(***************************************************************************)
(* Readings of the state used by the properties.                           *)
(***************************************************************************)
\* how many times _get_html was called for the URL u
GetCount(u) == Cardinality({j \in DOMAIN log : log[j] = <<"get", u>>})

IsGet(j) == log[j][1] = "get"

IsSleep(j) == log[j][1] = "sleep"

\* the per-URL state of the i-th discovered URL, read off the calls made and
\* the records appended
UrlState(i) ==
    IF GetCount(links[i]) = 0 THEN "Pending"
    ELSE IF i > Len(records) THEN "Fetching"
    ELSE IF outcomes[i] = "ok" THEN "Interpreted"
    ELSE "FetchFailed"

Terminal == {"Interpreted", "FetchFailed"}

\* every eligible link target of the listing, in listing order (no break)
EligibleLinks(anchors) == CollectLinks(anchors, 1, << >>, Len(anchors) + 1)

FirstN(s, n) == SubSeq(s, 1, Min(n, Len(s)))

HasDuplicate(s) == \E i, j \in DOMAIN s : i # j /\ s[i] = s[j]

(***************************************************************************)
(* C1: build_records returns exactly one record per discovered URL; the    *)
(* record at position i carries the i-th URL as website and i as           *)
(* serial_number, whatever the fetches did; no URL gives the empty list.   *)
(***************************************************************************)
C1_OneRecordPerUrl ==
    /\ Len(records) <= Len(links)
    /\ \A i \in DOMAIN records :
         /\ records[i].website = Some(links[i])
         /\ records[i].serial_number = i
    /\ pc = "done" =>
         /\ result = Some(records)
         /\ Len(result[1]) = Len(links)

C1_Witness ==
    /\ pc = "done"
    /\ Len(links) >= 3
    /\ \E i, j \in DOMAIN outcomes : outcomes[i] = "failed" /\ outcomes[j] = "ok"

(***************************************************************************)
(* C2: a failed fetch of the URL at position i appends the placeholder     *)
(* record (serial_number i, website and sources the URL, name its host,    *)
(* the batch's country and region, notes non-empty, no email, phone or     *)
(* company_details); the failure does not leave build_records and every    *)
(* later URL is still fetched.                                             *)
(***************************************************************************)
C2_FailurePlaceholder ==
    /\ \A i \in DOMAIN records :
         outcomes[i] = "failed" =>
           /\ records[i].serial_number = i
           /\ records[i].website = Some(links[i])
           /\ records[i].name = Netloc(links[i])
           /\ records[i].country = Some(country)
           /\ records[i].region = Some(region)
           /\ records[i].sources = <<links[i]>>
           /\ Truthy(records[i].notes)
           /\ records[i].email = None
           /\ records[i].contact_number = None
           /\ records[i].company_details = None
    /\ Len(outcomes) = Len(records)
    /\ searched = "ok" => pc # "aborted"
    /\ pc = "done" => \A i \in DOMAIN links : i \in DOMAIN records /\ GetCount(links[i]) = 1

C2_Witness ==
    /\ pc = "done"
    /\ Len(outcomes) >= 2
    /\ outcomes[1] = "failed"
    /\ outcomes[2] = "ok"
    /\ Netloc(links[1]) # << >>

(***************************************************************************)
(* C3 (as claimed): between any two consecutive page fetches there is      *)
(* exactly one delay step, whether the earlier fetch succeeded or failed.  *)
(***************************************************************************)
C3_DelayBetweenFetches ==
    \A j \in DOMAIN log :
        (j >= 3 /\ IsGet(j)) => (IsSleep(j - 1) /\ IsGet(j - 2))

(***************************************************************************)
(* C4: when the search fetch fails, build_records is left by the failure:  *)
(* nothing is returned, no page is fetched, no record is built and the     *)
(* search fetch is the only call made.                                     *)
(***************************************************************************)
C4_SearchFailureAborts ==
    searched = "failed" =>
        /\ pc = "aborted"
        /\ result = None
        /\ records = << >>
        /\ log = << <<"get", SearchUrl>> >>

C4_Witness ==
    /\ searched = "failed"
    /\ pc = "aborted"
    /\ Len(google_search(listing, num_results)) >= 2

(***************************************************************************)
(* C5 (as claimed): search returns the distinct eligible link targets in   *)
(* first-seen order, cut to the first num_results of them: no duplicate,   *)
(* at most num_results entries.                                            *)
(***************************************************************************)
C5_DedupThenTruncate ==
    searched = "ok" =>
        /\ ~HasDuplicate(links)
        /\ Len(links) <= num_results
        /\ links = FirstN(Dedup(EligibleLinks(listing), {}), num_results)

(***************************************************************************)
(* C6: every discovered URL is fetched at most once and, when the run is   *)
(* done, exactly once; its state only moves Pending -> Fetching ->         *)
(* Interpreted or FetchFailed and stays there; at most one URL is being    *)
(* fetched, and URL i is not fetched before the record of URL i-1 exists.  *)
(***************************************************************************)
C6_StateInv ==
    /\ \A i \in DOMAIN links : GetCount(links[i]) <= 1
    /\ Cardinality({i \in DOMAIN links : UrlState(i) = "Fetching"}) <= 1
    /\ \A i \in DOMAIN links : UrlState(i) # "Pending" => Len(records) >= i - 1
    /\ pc = "done" =>
         \A i \in DOMAIN links : GetCount(links[i]) = 1 /\ UrlState(i) \in Terminal

C6_StateStep ==
    \A i \in DOMAIN links :
        /\ UrlState(i) = "Pending" => UrlState(i)' \in {"Pending", "Fetching"}
        /\ UrlState(i) = "Fetching" => UrlState(i)' \in {"Fetching"} \cup Terminal
        /\ UrlState(i) \in Terminal => UrlState(i)' = UrlState(i)

C6_SingleAttempt == [](C6_StateInv) /\ [][C6_StateStep]_vars

C6_Witness ==
    /\ pc = "fetching"
    /\ idx = 3
    /\ UrlState(1) = "FetchFailed"
    /\ UrlState(2) = "Interpreted"
    /\ UrlState(3) = "Fetching"

(***************************************************************************)
(* C7: enrich leaves a populated email and a populated contact_number as   *)
(* they were, leaves the whole record as it was when the text holds no     *)
(* email and no phone, and never touches another field.                    *)
(***************************************************************************)
C7_EnrichFrame ==
    pc = "enriched" =>
        /\ Truthy(rec0.email) => rec.email = rec0.email
        /\ Truthy(rec0.contact_number) => rec.contact_number = rec0.contact_number
        /\ (_extract_emails(dirText) = << >> /\ _extract_phones(dirText) = << >>)
             => rec = rec0
        /\ [rec EXCEPT !.email = rec0.email,
                       !.contact_number = rec0.contact_number] = rec0

C7_Witness ==
    /\ pc = "enriched"
    /\ Truthy(rec0.email)
    /\ ~Truthy(rec0.contact_number)
    /\ Len(_extract_emails(dirText)) >= 2
    /\ rec.contact_number = Some(<<"5551234">>)

(***************************************************************************)
(* C8 (as claimed): every record of the output has a non-empty name and a  *)
(* non-empty website.                                                      *)
(***************************************************************************)
C8_NameAndWebsiteNonEmpty ==
    \A i \in DOMAIN records :
        records[i].name # << >> /\ Truthy(records[i].website)

(***************************************************************************)
(* C9 (as claimed): a page without a title element and without a           *)
(* description meta tag is interpreted to a record whose name is the URL's *)
(* host and whose company_details is absent.                               *)
(***************************************************************************)
C9_NoTitleNoDescription ==
    (pc = "interpreted" /\ argPage.title = << >> /\ argPage.meta = << >>) =>
        /\ rec.name = Netloc(argUrl)
        /\ rec.company_details = None

(***************************************************************************)
(* C9 (amended): a page without a title element, without a level-1         *)
(* heading, without a description meta tag and without paragraph elements  *)
(* is interpreted to a record whose name is the URL's host and whose       *)
(* company_details is absent.                                              *)
(***************************************************************************)
C9_NoTitleHeadingDescriptionParagraph ==
    (/\ pc = "interpreted"
     /\ argPage.title = << >> /\ argPage.h1 = None
     /\ argPage.meta = << >> /\ argPage.paras = << >>) =>
        /\ rec.name = Netloc(argUrl)
        /\ rec.company_details = None

C9_Witness ==
    /\ pc = "interpreted"
    /\ argPage.title = << >> /\ argPage.h1 = None
    /\ argPage.meta = << >> /\ argPage.paras = << >>
    /\ argPage.text # << >>
    /\ rec.name = <<"a.ex">>
    /\ rec.email # None

(***************************************************************************)
(* C10: a record of the output has notes set exactly when the fetch of its *)
(* URL failed, and then the notes are non-empty.                           *)
(***************************************************************************)
C10_NotesIffFailed ==
    \A i \in DOMAIN records :
        /\ (records[i].notes # None) <=> (outcomes[i] = "failed")
        /\ outcomes[i] = "failed" => Truthy(records[i].notes)

C10_Witness ==
    /\ pc = "done"
    /\ Len(records) >= 2
    /\ records[1].notes = None
    /\ records[2].notes # None

====
